---- MODULE Spec2Model ----
(***************************************************************************)
(* Model of transmarkset.js (TransMarkSet): the 'transmark' markset parser *)
(* and builder, the language lookups and the per-element translators.      *)
(*                                                                         *)
(* A JavaScript string is a sequence of one-character strings.  A          *)
(* JavaScript value is a record [t, s]: t is "string", "null" or           *)
(* "undefined", s the characters of a string (<<>> otherwise).             *)
(***************************************************************************)
EXTENDS Integers, Sequences, FiniteSets, TLC

VARIABLES
  markset,    \* the markset string handed to getMark_ / modifyMark
  pairs,      \* the (category, name) list markset was written from
  wf,         \* TRUE iff markset was written from pairs (grammar of the file header)
  text,       \* argument 'text' of fillMark_
  tip,        \* argument 'tip' of fillMark_
  value,      \* argument 'value' of fillMark_
  op,         \* the last call: [name, type, mod]
  ret,        \* what the last call returned
  calls,      \* the modifier invocations of the last modifyMark call, in order
  texts,      \* SettingEditorLanguage.texts
  tips,       \* SettingEditorLanguage.tips
  values,     \* SettingEditorLanguage.values
  elem,       \* the element being localized
  scheduled,  \* the Tips.schedule invocations so far, in order
  prev        \* the element and the length of scheduled before the last translator call

vars == <<markset, pairs, wf, text, tip, value, op, ret, calls,
          texts, tips, values, elem, scheduled, prev>>

markVars == <<markset, pairs, wf, text, tip, value, calls>>
langVars == <<texts, tips, values>>
elemVars == <<elem, scheduled, prev>>

-----------------------------------------------------------------------------
(* Bounds *)

MaxTokens == 3     \* tokens of a free-form markset
MaxPairs == 2      \* pairs of a markset written by the grammar
MaxNameLen == 1    \* characters of a mark name handed to fillMark_
MaxOptions == 2    \* options of a SELECT element
MaxCalls == 1      \* translator calls on one element

-----------------------------------------------------------------------------
(* JavaScript values *)

Null == [t |-> "null", s |-> <<>>]
Undefined == [t |-> "undefined", s |-> <<>>]
Str(s) == [t |-> "string", s |-> s]

IsStr(v) == v.t = "string"

\* ToBoolean of a string, null or undefined: only a non-empty string is true.
Truthy(v) == v.t = "string" /\ v.s # <<>>

\* ToPropertyKey: the key a value is looked up under by obj[v].
ToPropertyKey(v) ==
  IF v.t = "string" THEN v.s
  ELSE IF v.t = "null" THEN <<"n", "u", "l", "l">>
  ELSE <<"u", "n", "d", "e", "f", "i", "n", "e", "d">>

\* obj[v] on a mapping of own string keys: undefined when there is no entry.
Lookup(table, v) ==
  LET k == ToPropertyKey(v)
  IN IF k \in DOMAIN table THEN Str(table[k]) ELSE Undefined

-----------------------------------------------------------------------------
(* TransMarkSet.types *)

TEXT == <<"t", "e", "x", "t">>
TIP == <<"t", "i", "p">>
VALUE == <<"v", "a", "l", "u", "e">>
Types == {TEXT, TIP, VALUE}

Seps == {":", ";"}

\* String.prototype.split(/[:;]/): the pieces between separators, empty ones kept.
RECURSIVE Split(_)
Split(s) ==
  IF s = <<>> THEN << <<>> >>
  ELSE LET rest == Split(Tail(s))
       IN IF Head(s) \in Seps
            THEN << <<>> >> \o rest
            ELSE << <<Head(s)>> \o Head(rest) >> \o Tail(rest)

\* The for loop of getMark_, i the 1-based index of marks[i] (i += 2).
RECURSIVE getMarkLoop(_, _, _)
getMarkLoop(marks, i, type) ==
  IF ~(i < Len(marks)) THEN Null
  ELSE IF marks[i] = type THEN Str(marks[i + 1])
  ELSE getMarkLoop(marks, i + 2, type)

\* Mutant: fewer than 3 tokens (instead of 2) count as no marks.
getMark_short(ms, type) ==
  LET marks == Split(ms)
  IN IF Len(marks) < 3 THEN Null ELSE getMarkLoop(marks, 1, type)

\* Mutant: the last pair of a category wins instead of the first.
RECURSIVE getMarkLast(_, _, _)
getMarkLast(marks, i, type) ==
  IF ~(i < Len(marks)) THEN Null
  ELSE LET later == getMarkLast(marks, i + 2, type)
       IN IF later # Null THEN later
          ELSE IF marks[i] = type THEN Str(marks[i + 1]) ELSE Null

getMark_last(ms, type) ==
  LET marks == Split(ms)
  IN IF Len(marks) < 2 THEN Null ELSE getMarkLast(marks, 1, type)

\* Mutant: an odd number of tokens is rejected as a whole.
getMark_odd(ms, type) ==
  LET marks == Split(ms)
  IN IF Len(marks) < 2 \/ Len(marks) % 2 = 1 THEN Null
     ELSE getMarkLoop(marks, 1, type)

\* TransMarkSet.getMark_(markset, type), markset a string.
getMark_(ms, type) ==
  LET marks == Split(ms)
  IN IF Len(marks) < 2 THEN Null ELSE getMarkLoop(marks, 1, type)

\* Mutant: the trailing ';' is not removed.
fillMark_noslice(t, p, v) ==
  LET m1 == IF Truthy(t) THEN TEXT \o <<":">> \o t.s \o <<";">> ELSE <<>>
      m2 == IF Truthy(p) THEN m1 \o TIP \o <<":">> \o p.s \o <<";">> ELSE m1
      m3 == IF Truthy(v) THEN m2 \o VALUE \o <<":">> \o v.s \o <<";">> ELSE m2
  IN IF m3 = <<>> THEN Null ELSE Str(m3)

\* TransMarkSet.fillMark_(text, tip, value), each a string or null.
fillMark_(t, p, v) ==
  LET m1 == IF Truthy(t) THEN TEXT \o <<":">> \o t.s \o <<";">> ELSE <<>>
      m2 == IF Truthy(p) THEN m1 \o TIP \o <<":">> \o p.s \o <<";">> ELSE m1
      m3 == IF Truthy(v) THEN m2 \o VALUE \o <<":">> \o v.s \o <<";">> ELSE m2
  IN IF m3 = <<>> THEN Null ELSE Str(SubSeq(m3, 1, Len(m3) - 1))

\* The modifiers handed to modifyMark: (type, original name) -> modified name.
Modifiers == {"keep", "remove", "rename", "dropTip"}

modifier(m, type, v) ==
  CASE m = "keep" -> v
    [] m = "remove" -> Null
    [] m = "rename" -> Str(<<"b">>)
    [] m = "dropTip" -> IF type = TIP THEN Null ELSE v

Call(type, v) == [type |-> type, value |-> v]

\* Mutant: the tip is modified before the text.
modifyMark_order(ms, m) ==
  LET text0 == getMark_(ms, TEXT)
      tip0 == getMark_(ms, TIP)
      value0 == getMark_(ms, VALUE)
      tip1 == modifier(m, TIP, tip0)
      text1 == modifier(m, TEXT, text0)
      value1 == modifier(m, VALUE, value0)
  IN [ret |-> fillMark_(text1, tip1, value1),
      calls |-> <<Call(TIP, tip0), Call(TEXT, text0), Call(VALUE, value0)>>]

\* TransMarkSet.modifyMark(markset, modifier): the result and the modifier calls.
modifyMark(ms, m) ==
  LET text0 == getMark_(ms, TEXT)
      tip0 == getMark_(ms, TIP)
      value0 == getMark_(ms, VALUE)
      text1 == modifier(m, TEXT, text0)
      tip1 == modifier(m, TIP, tip0)
      value1 == modifier(m, VALUE, value0)
  IN [ret |-> fillMark_(text1, tip1, value1),
      calls |-> <<Call(TEXT, text0), Call(TIP, tip0), Call(VALUE, value0)>>]

-----------------------------------------------------------------------------
(* The inputs *)

\* All sequences over S of length at most n.
RECURSIVE SeqsUpTo(_, _)
SeqsUpTo(S, n) ==
  IF n = 0 THEN {<<>>}
  ELSE LET shorter == SeqsUpTo(S, n - 1)
       IN shorter \cup {Append(q, x) : q \in shorter, x \in S}

NameA == <<"a">>
NameB == <<"b">>

\* 'text:mark1;tip:mark2' of the file header: the pairs joined by ';'.
RECURSIVE Render(_)
Render(ps) ==
  IF ps = <<>> THEN <<>>
  ELSE LET p == Head(ps)
           one == p[1] \o <<":">> \o p[2]
       IN IF Len(ps) = 1 THEN one ELSE one \o <<";">> \o Render(Tail(ps))

PairLists == SeqsUpTo(Types \X {NameA, NameB}, MaxPairs)

\* Free-form marksets: tokens joined by arbitrary separators.
Tokens == Types \cup {NameA, <<>>}

RECURSIVE Joined(_)
Joined(n) ==
  IF n = 1 THEN Tokens
  ELSE {m \o <<c>> \o k : m \in Joined(n - 1), c \in Seps, k \in Tokens}

RawMarksets == UNION {Joined(n) : n \in 1..MaxTokens}

\* Mark names handed to fillMark_: any short string, or null.
NameArgs == {Null} \cup {Str(s) : s \in SeqsUpTo({"a", ":", ";"}, MaxNameLen)}

NoCall == [name |-> "none", type |-> <<>>, mod |-> "none"]

NoElem == [kind |-> "none", transmark |-> Null, range |-> Null,
           innerHTML |-> <<>>, value |-> <<>>, tip |-> Undefined, options |-> <<>>]

NoPrev == [elem |-> NoElem, nsched |-> 0, ncalls |-> 0]

-----------------------------------------------------------------------------
(* The markset functions applied to drawn inputs *)

InitMark ==
  /\ \/ /\ wf = TRUE
        /\ pairs \in PairLists
        /\ markset = Render(pairs)
        /\ text = Null /\ tip = Null /\ value = Null
     \/ /\ wf = FALSE
        /\ pairs = <<>>
        /\ markset \in RawMarksets
        /\ text = Null /\ tip = Null /\ value = Null
     \/ /\ wf = FALSE
        /\ pairs = <<>>
        /\ markset = <<>>
        /\ text \in NameArgs /\ tip \in NameArgs /\ value \in NameArgs
  /\ op = NoCall
  /\ ret = Null
  /\ calls = <<>>
  /\ texts = <<>> /\ tips = <<>> /\ values = <<>>
  /\ elem = NoElem
  /\ scheduled = <<>>
  /\ prev = NoPrev

\* getMark_(markset, type)
CallGetMark(type) ==
  /\ op' = [name |-> "getMark_", type |-> type, mod |-> "none"]
  /\ ret' = getMark_(markset, type)
  /\ calls' = <<>>
  /\ UNCHANGED <<markset, pairs, wf, text, tip, value, langVars, elemVars>>

\* fillMark_(text, tip, value)
CallFillMark ==
  /\ op' = [name |-> "fillMark_", type |-> <<>>, mod |-> "none"]
  /\ ret' = fillMark_(text, tip, value)
  /\ calls' = <<>>
  /\ UNCHANGED <<markset, pairs, wf, text, tip, value, langVars, elemVars>>

\* getMark_(fillMark_(text, tip, value), c) for every category c
CallParseBuilt ==
  /\ fillMark_(text, tip, value) # Null
  /\ op' = [name |-> "parseBuilt", type |-> <<>>, mod |-> "none"]
  /\ ret' = [c \in Types |-> getMark_(fillMark_(text, tip, value).s, c)]
  /\ calls' = <<>>
  /\ UNCHANGED <<markset, pairs, wf, text, tip, value, langVars, elemVars>>

\* fillMark_(getMark_(m, text), getMark_(m, tip), getMark_(m, value))
CallRebuild ==
  /\ op' = [name |-> "rebuild", type |-> <<>>, mod |-> "none"]
  /\ ret' = fillMark_(getMark_(markset, TEXT), getMark_(markset, TIP),
                      getMark_(markset, VALUE))
  /\ calls' = <<>>
  /\ UNCHANGED <<markset, pairs, wf, text, tip, value, langVars, elemVars>>

\* modifyMark(markset, m)
CallModifyMark(m) ==
  /\ op' = [name |-> "modifyMark", type |-> <<>>, mod |-> m]
  /\ ret' = modifyMark(markset, m).ret
  /\ calls' = modifyMark(markset, m).calls
  /\ UNCHANGED <<markset, pairs, wf, text, tip, value, langVars, elemVars>>

NextMark ==
  \/ \E type \in Types : CallGetMark(type)
  \/ CallFillMark
  \/ CallParseBuilt
  \/ CallRebuild
  \/ \E m \in Modifiers : CallModifyMark(m)

SpecMark == InitMark /\ [][NextMark]_vars

-----------------------------------------------------------------------------
(* Language lookups: SettingEditorLanguage is read, never written *)

\* TransMarkSet.getText_(markset)
getText_(ms) == Lookup(texts, getMark_(ms, TEXT))

\* TransMarkSet.getTip_(markset)
getTip_(ms) == Lookup(tips, getMark_(ms, TIP))

\* TransMarkSet.getValue_(markset)
getValue_(ms) == Lookup(values, getMark_(ms, VALUE))

NullKey == <<"n", "u", "l", "l">>

\* The mappings a language file may hold for one category, x its localized string.
TableSet(x) ==
  { [k \in {} |-> x],
    [k \in {NameA} |-> x],
    [k \in {NameA} |-> <<>>],
    [k \in {NameA, NullKey} |-> IF k = NameA THEN x ELSE x \o <<"0">>] }

TextStr == <<"T">>
TipStr == <<"P">>
ValueStr == <<"V">>

InitLang ==
  /\ wf = TRUE
  /\ pairs \in PairLists
  /\ markset = Render(pairs)
  /\ text = Null /\ tip = Null /\ value = Null
  /\ op = NoCall
  /\ ret = Null
  /\ calls = <<>>
  /\ texts \in TableSet(TextStr)
  /\ tips \in TableSet(TipStr)
  /\ values \in TableSet(ValueStr)
  /\ elem = NoElem
  /\ scheduled = <<>>
  /\ prev = NoPrev

CallGetText ==
  /\ op' = [name |-> "getText_", type |-> TEXT, mod |-> "none"]
  /\ ret' = getText_(markset)
  /\ UNCHANGED <<markVars, langVars, elemVars>>

CallGetTip ==
  /\ op' = [name |-> "getTip_", type |-> TIP, mod |-> "none"]
  /\ ret' = getTip_(markset)
  /\ UNCHANGED <<markVars, langVars, elemVars>>

CallGetValue ==
  /\ op' = [name |-> "getValue_", type |-> VALUE, mod |-> "none"]
  /\ ret' = getValue_(markset)
  /\ UNCHANGED <<markVars, langVars, elemVars>>

NextLang ==
  \/ CallGetText
  \/ CallGetTip
  \/ CallGetValue

SpecLang == InitLang /\ [][NextLang]_vars

-----------------------------------------------------------------------------
(* Elements and their translators *)

RangeLabel == <<" ", "R", "a", "n", "g", "e", "=">>

\* Mutant: the range is appended without testing that it is there.
getElementTip_norange(e) ==
  LET mark == e.transmark
  IN IF Truthy(mark)
       THEN LET t == getTip_(mark.s)
            IN IF Truthy(t) THEN Str(t.s \o RangeLabel \o e.range.s) ELSE Null
       ELSE Null

\* TransMarkSet.getElementTip_(elem); getAttribute gives null or a string.
getElementTip_(e) ==
  LET mark == e.transmark
  IN IF Truthy(mark)
       THEN LET t == getTip_(mark.s)
                range == e.range
            IN IF Truthy(t)
                 THEN IF Truthy(range) THEN Str(t.s \o RangeLabel \o range.s) ELSE t
                 ELSE Null
       ELSE Null

\* TransMarkSet.getElementValue_(elem)
getElementValue_(e) ==
  LET mark == e.transmark
  IN IF Truthy(mark)
       THEN LET v == getValue_(mark.s) IN IF Truthy(v) THEN v ELSE Null
       ELSE Null

\* TransMarkSet.getElementText_(elem)
getElementText_(e) ==
  LET mark == e.transmark
  IN IF Truthy(mark)
       THEN LET t == getText_(mark.s) IN IF Truthy(t) THEN t ELSE Null
       ELSE Null

\* Tips.schedule(elem): the element's tip as the scheduler finds it.
Schedule(target, e) == [target |-> target, tip |-> e.tip]

\* TransMarkSet.transLanguageForSpanElem(elem): [elem, scheduled] afterwards.
transLanguageForSpanElem(e, sched) ==
  LET t == getElementText_(e)
      e1 == IF Truthy(t) THEN [e EXCEPT !.innerHTML = t.s] ELSE e
      p == getElementTip_(e1)
      e2 == IF Truthy(p) THEN [e1 EXCEPT !.tip = p] ELSE e1
  IN [elem |-> e2,
      scheduled |-> IF Truthy(p) THEN Append(sched, Schedule("elem", e2)) ELSE sched]

\* TransMarkSet.transLanguageForInputElem(elem)
transLanguageForInputElem(e, sched) ==
  LET v == getElementValue_(e)
      e1 == IF Truthy(v) THEN [e EXCEPT !.value = v.s] ELSE e
      p == getElementTip_(e1)
      e2 == IF Truthy(p) THEN [e1 EXCEPT !.tip = p] ELSE e1
  IN [elem |-> e2,
      scheduled |-> IF Truthy(p) THEN Append(sched, Schedule("elem", e2)) ELSE sched]

\* The callback of Util.array.apply on one option.
TransOption(option) ==
  LET t == getElementText_(option)
  IN IF Truthy(t) THEN [option EXCEPT !.innerHTML = t.s] ELSE option

\* TransMarkSet.transLanguageForSelectElem(elem)
transLanguageForSelectElem(e, sched) ==
  LET p == getElementTip_(e)
      e1 == IF Truthy(p) THEN [e EXCEPT !.tip = p] ELSE e
      opts == [i \in 1..Len(e.options) |-> TransOption(e.options[i])]
  IN [elem |-> [e1 EXCEPT !.options = opts],
      scheduled |-> IF Truthy(p) THEN Append(sched, Schedule("elem", e1)) ELSE sched]

\* TransMarkSet.transLanguageForLinkElem(elem)
transLanguageForLinkElem(e, sched) ==
  LET p == getElementTip_(e)
      e1 == IF Truthy(p) THEN [e EXCEPT !.tip = p] ELSE e
  IN [elem |-> e1,
      scheduled |-> IF Truthy(p) THEN Append(sched, Schedule("elem", e1)) ELSE sched]

Kinds == {"SPAN", "INPUT", "SELECT", "LINK"}

Old == <<"o">>

Pair(c, n) == <<c, n>>

\* The transmark attributes of the page's elements, as pair lists.
ElemMarks ==
  { <<>>,
    <<Pair(TEXT, NameA)>>, <<Pair(TEXT, NameB)>>,
    <<Pair(TIP, NameA)>>, <<Pair(TIP, NameB)>>,
    <<Pair(VALUE, NameA)>>, <<Pair(VALUE, NameB)>>,
    <<Pair(TEXT, NameA), Pair(TIP, NameA)>>,
    <<Pair(TEXT, NameA), Pair(TIP, NameB)>>,
    <<Pair(TIP, NameA), Pair(TEXT, NameB)>>,
    <<Pair(VALUE, NameA), Pair(TIP, NameA)>>,
    <<Pair(VALUE, NameA), Pair(TIP, NameB)>>,
    <<Pair(TIP, NameA), Pair(VALUE, NameB)>> }

Ranges == {Null, Str(<<>>), Str(<<"1", "-", "9">>)}

\* An OPTION element: its own transmark attribute and label.
Option(mark) == [transmark |-> mark, range |-> Null, innerHTML |-> Old]

OptionMarks ==
  {Null, Str(Render(<<Pair(TEXT, NameA)>>)), Str(Render(<<Pair(TIP, NameB)>>))}

OptionLists == SeqsUpTo({Option(m) : m \in OptionMarks}, MaxOptions)

Init ==
  /\ pairs \in ElemMarks
  /\ wf = TRUE
  /\ markset = Render(pairs)
  /\ text = Null /\ tip = Null /\ value = Null
  /\ op = NoCall
  /\ ret = Null
  /\ calls = <<>>
  /\ texts \in TableSet(TextStr)
  /\ tips \in TableSet(TipStr)
  /\ values \in TableSet(ValueStr)
  /\ \E kind \in Kinds, mark \in {Null, Str(markset)}, range \in Ranges,
        options \in OptionLists :
       /\ mark = Null => pairs = <<>>
       /\ kind # "SELECT" => options = <<>>
       /\ elem = [kind |-> kind,
                  transmark |-> mark,
                  range |-> range,
                  innerHTML |-> Old, value |-> Old, tip |-> Undefined,
                  options |-> options]
  /\ scheduled = <<>>
  /\ prev = NoPrev

\* One translator call on the element; r is what the translator leaves.
Translate(name, r) ==
  /\ prev.ncalls < MaxCalls
  /\ op' = [name |-> name, type |-> <<>>, mod |-> "none"]
  /\ prev' = [elem |-> elem, nsched |-> Len(scheduled), ncalls |-> prev.ncalls + 1]
  /\ elem' = r.elem
  /\ scheduled' = r.scheduled
  /\ UNCHANGED <<markVars, ret, langVars>>

TransSpan ==
  /\ elem.kind = "SPAN"
  /\ Translate("transLanguageForSpanElem", transLanguageForSpanElem(elem, scheduled))

TransInput ==
  /\ elem.kind = "INPUT"
  /\ Translate("transLanguageForInputElem", transLanguageForInputElem(elem, scheduled))

TransSelect ==
  /\ elem.kind = "SELECT"
  /\ Translate("transLanguageForSelectElem", transLanguageForSelectElem(elem, scheduled))

TransLink ==
  /\ elem.kind = "LINK"
  /\ Translate("transLanguageForLinkElem", transLanguageForLinkElem(elem, scheduled))

Next ==
  \/ TransSpan
  \/ TransInput
  \/ TransSelect
  \/ TransLink

Spec == Init /\ [][Next]_vars

-----------------------------------------------------------------------------
(* What the claims are stated with *)

Min(S) == CHOOSE i \in S : \A j \in S : i <= j

\* The name the pair list gives a category first, or null.
FirstName(ps, c) ==
  LET I == {i \in 1..Len(ps) : ps[i][1] = c}
  IN IF I = {} THEN Null ELSE Str(ps[Min(I)][2])

\* All the pairs of a pair list, and the first pair of each category.
AllPairs(ps) == {ps[i] : i \in 1..Len(ps)}
FirstPairs(ps) == {ps[i] : i \in {k \in 1..Len(ps) : \A j \in 1..(k - 1) : ps[j][1] # ps[k][1]}}

\* r is a markset holding exactly the pairs P (null when P is empty).
Carries(r, P) ==
  IF P = {} THEN r = Null
  ELSE /\ IsStr(r)
       /\ \E q \in PairLists :
            /\ Len(q) = Cardinality(P)
            /\ AllPairs(q) = P
            /\ Render(q) = r.s

\* 'category:name' of each present (non-empty) name, in the order text, tip, value,
\* joined by ';'; null when none is present.
Built(t, p, v) ==
  LET present == SelectSeq(<<<<TEXT, t>>, <<TIP, p>>, <<VALUE, v>>>>,
                           LAMBDA x : Truthy(x[2]))
  IN IF present = <<>> THEN Null
     ELSE Str(Render([i \in 1..Len(present) |-> <<present[i][1], present[i][2].s>>]))

\* The name holds no separator.
Clean(v) == \A i \in 1..Len(v.s) : v.s[i] \notin Seps

Arg(c) == IF c = TEXT THEN text ELSE IF c = TIP THEN tip ELSE value

-----------------------------------------------------------------------------
(* Claims on the markset functions, under SpecMark *)

\* C4: fillMark_(text, tip, value) returns exactly the present categories, each as
\* 'category:name', in the order text, tip, value, joined by ';' with no trailing
\* separator, and null when no name is present.
C4_FillMark == op.name = "fillMark_" => ret = Built(text, tip, value)

C4_Witness ==
  /\ op.name = "fillMark_"
  /\ Truthy(text) /\ ~Truthy(tip) /\ Truthy(value)
  /\ IsStr(ret)

\* C5: modifyMark invokes the modifier exactly three times, for text, tip and value
\* in that order, each time with the name parsed from the markset (null when the
\* category is absent), and returns the build of the three names it returned.
C5_ModifyMark ==
  op.name = "modifyMark" =>
    /\ Len(calls) = 3
    /\ <<calls[1].type, calls[2].type, calls[3].type>> = <<TEXT, TIP, VALUE>>
    /\ \A i \in 1..3 :
         /\ calls[i].value = getMark_(markset, calls[i].type)
         /\ wf => calls[i].value = FirstName(pairs, calls[i].type)
    /\ ret = Built(modifier(op.mod, TEXT, calls[1].value),
                   modifier(op.mod, TIP, calls[2].value),
                   modifier(op.mod, VALUE, calls[3].value))

C5_Witness ==
  /\ op.name = "modifyMark" /\ op.mod = "keep"
  /\ wf /\ Len(pairs) = 2
  /\ calls[1].value # Null /\ calls[2].value = Null /\ calls[3].value # Null
  /\ IsStr(ret)

\* C6 as stated: for every triple of names with at least one present, parsing the
\* built markset gives back each present name and null for each absent one.
C6_AnyNames ==
  op.name = "parseBuilt" =>
    \A c \in Types : ret[c] = IF Truthy(Arg(c)) THEN Arg(c) ELSE Null

\* C6 amended: the same, for names that hold neither ':' nor ';'.
C6_CleanNames ==
  (op.name = "parseBuilt" /\ Clean(text) /\ Clean(tip) /\ Clean(value)) =>
    \A c \in Types : ret[c] = IF Truthy(Arg(c)) THEN Arg(c) ELSE Null

C6_Witness ==
  /\ op.name = "parseBuilt"
  /\ Clean(text) /\ Clean(tip) /\ Clean(value)
  /\ Truthy(text) /\ ~Truthy(tip) /\ Truthy(value)
  /\ ret[TEXT] = text /\ ret[TIP] = Null /\ ret[VALUE] = value

\* C7 as stated: rebuilding a well-formed markset from its three parsed names gives
\* a markset with the same pairs, whatever their order and also when a category is
\* listed more than once.
C7_SamePairs == (op.name = "rebuild" /\ wf) => Carries(ret, AllPairs(pairs))

\* C7 amended: the rebuilt markset holds, for each category, the first pair the
\* markset lists for it: the same pairs as the markset, whatever their order, when
\* no category is listed more than once.
C7_FirstPairs ==
  (op.name = "rebuild" /\ wf) =>
    /\ Carries(ret, FirstPairs(pairs))
    /\ Cardinality({p[1] : p \in AllPairs(pairs)}) = Len(pairs)
         => Carries(ret, AllPairs(pairs))

C7_Witness ==
  /\ op.name = "rebuild" /\ wf
  /\ Len(pairs) = 2 /\ pairs[1][1] = VALUE /\ pairs[2][1] = TEXT
  /\ IsStr(ret) /\ ret.s # markset

\* C8 as stated: a markset that splits into an odd number of tokens, or into fewer
\* than 2, gives 'not found' for every category (here even an empty name counts as
\* not found).
C8_OddIsNull ==
  op.name = "getMark_" =>
    LET n == Len(Split(markset))
    IN (n % 2 = 1 \/ n < 2) => ~Truthy(ret)

\* C8 amended: fewer than 2 tokens give null for every category; of an odd number
\* of tokens, 3 or more, the last one is ignored and the pairs before it are parsed,
\* so a category is null only when it heads none of them.
C8_LastTokenIgnored ==
  op.name = "getMark_" =>
    LET toks == Split(markset)
        n == Len(toks)
        I == {i \in 1..(n - 1) : i % 2 = 1 /\ toks[i] = op.type}
    IN /\ n < 2 => ret = Null
       /\ (n % 2 = 1 /\ n >= 3) =>
            ret = IF I = {} THEN Null ELSE Str(toks[Min(I) + 1])

C8_Witness ==
  /\ op.name = "getMark_"
  /\ Len(Split(markset)) = 3
  /\ ret = Str(NameA)

-----------------------------------------------------------------------------
(* Claims on the language lookups, under SpecLang *)

Table(c) == IF c = TEXT THEN texts ELSE IF c = TIP THEN tips ELSE values

\* The pair list names category c and the category's table has an entry for the name.
Found(ps, c) ==
  /\ FirstName(ps, c) # Null
  /\ FirstName(ps, c).s \in DOMAIN Table(c)

\* The entry of the category's table for the name the pair list gives c.
Entry(ps, c) == Table(c)[FirstName(ps, c).s]

\* C9: getText_, getTip_ and getValue_ return undefined when the markset does not
\* name their category, whatever the table holds, and when the name has no entry;
\* otherwise exactly the table's entry for the name.
C9_Lookup ==
  op.name \in {"getText_", "getTip_", "getValue_"} =>
    ret = IF Found(pairs, op.type) THEN Str(Entry(pairs, op.type)) ELSE Undefined

-----------------------------------------------------------------------------
(* Claims on the translators, under Spec *)

Translators ==
  {"transLanguageForSpanElem", "transLanguageForInputElem",
   "transLanguageForSelectElem", "transLanguageForLinkElem"}

\* The mark of category c resolves: its table has a non-empty string for it.
Resolves(ps, c) == Found(ps, c) /\ Entry(ps, c) # <<>>

\* The pair list a transmark attribute was written from (none when it is absent).
MarkPairs(mark) ==
  IF mark = Null THEN <<>> ELSE CHOOSE ps \in ElemMarks : Render(ps) = mark.s

\* The Tips.schedule invocations of the last translator call.
NewlyScheduled == SubSeq(scheduled, prev.nsched + 1, Len(scheduled))

\* C1: a translator call invokes Tips.schedule(elem) exactly once when the tip mark
\* of the transmark attribute resolves in tips, with elem.tip already set; when
\* the attribute is absent or empty, names no tip or names one that does not resolve,
\* elem.tip is unchanged and Tips.schedule is not invoked.
C1_ScheduleIffTipResolves ==
  op.name \in Translators =>
    IF Resolves(MarkPairs(prev.elem.transmark), TIP)
      THEN /\ Len(NewlyScheduled) = 1
           /\ NewlyScheduled[1].target = "elem"
           /\ IsStr(elem.tip)
           /\ NewlyScheduled[1].tip = elem.tip
      ELSE /\ NewlyScheduled = <<>>
           /\ elem.tip = prev.elem.tip

\* C2: the SPAN translator replaces innerHTML by the text exactly when the text mark
\* resolves in texts, the INPUT translator sets value exactly when the value mark
\* resolves in values, and neither depends on whether the tip resolves.
C2_ContentIffMarkResolves ==
  LET ps == MarkPairs(prev.elem.transmark)
  IN /\ op.name = "transLanguageForSpanElem" =>
          elem.innerHTML = IF Resolves(ps, TEXT) THEN Entry(ps, TEXT)
                           ELSE prev.elem.innerHTML
     /\ op.name = "transLanguageForInputElem" =>
          elem.value = IF Resolves(ps, VALUE) THEN Entry(ps, VALUE)
                       ELSE prev.elem.value

\* C3: when a translator applies a tip, elem.tip is the tip getTip_ resolves for the
\* transmark attribute, followed by ' Range=' and the 'range' attribute when that is
\* present and non-empty, and nothing else; the same for all four translators.
C3_TipWithRange ==
  (op.name \in Translators /\ NewlyScheduled # <<>>) =>
    LET mark == prev.elem.transmark
        ps == MarkPairs(mark)
        range == prev.elem.range
        suffix == IF range # Null /\ range.s # <<>>
                    THEN <<" ", "R", "a", "n", "g", "e", "=">> \o range.s
                    ELSE <<>>
    IN /\ IsStr(mark)
       /\ elem.tip = Str(Lookup(tips, getMark_(mark.s, TIP)).s \o suffix)
       /\ Found(ps, TIP) => elem.tip = Str(Entry(ps, TIP) \o suffix)
       /\ NewlyScheduled[Len(NewlyScheduled)].tip = elem.tip

C3_Witness ==
  /\ op.name = "transLanguageForSelectElem"
  /\ NewlyScheduled # <<>>
  /\ Found(MarkPairs(prev.elem.transmark), TIP)
  /\ elem.range = Str(<<"1", "-", "9">>)
  /\ elem.tip = Str(TipStr \o <<" ", "R", "a", "n", "g", "e", "=", "1", "-", "9">>)

\* C10: the SELECT translator replaces each option's label exactly when the option's
\* own text mark resolves in texts, schedules the list at most once and never an
\* option, and leaves the list's own innerHTML and value alone.
C10_SelectOptions ==
  op.name = "transLanguageForSelectElem" =>
    /\ Len(elem.options) = Len(prev.elem.options)
    /\ \A i \in 1..Len(elem.options) :
         LET ps == MarkPairs(prev.elem.options[i].transmark)
         IN /\ elem.options[i].innerHTML =
                 IF Resolves(ps, TEXT) THEN Entry(ps, TEXT)
                 ELSE prev.elem.options[i].innerHTML
            /\ elem.options[i].transmark = prev.elem.options[i].transmark
    /\ Len(NewlyScheduled) <= 1
    /\ \A i \in 1..Len(NewlyScheduled) : NewlyScheduled[i].target = "elem"
    /\ elem.innerHTML = prev.elem.innerHTML
    /\ elem.value = prev.elem.value

====
